---- MODULE Spec2Model ----
(***************************************************************************)
(* ChatHubGo: the room-based real-time delivery server (RoomManager,       *)
(* RoomHub, Client read/write pumps, membership gate, messages table).     *)
(* One action per handler or goroutine step of the Go source.              *)
(* With it: the Chat component of the browser, and the single-hub server   *)
(* (one Hub for every session, src/server/main.go).                        *)
(***************************************************************************)
EXTENDS Integers, Sequences, FiniteSets, TLC

\* ---------------------------------------------------------------- bounds
\* Frames the read pumps decode in one run, all sessions together.
MaxFrames == 3
\* HTTP membership requests (join, leave, remove) served in one run, and the
\* frames decoded beside them after the first join.
MaxHttp == 1
HttpFrames == 1
\* Frames decoded after the sessions have joined their rooms.
RoomFrames == 2
\* Frames decoded after a first message has reached the mailboxes unwritten.
SlowFrames == 2
\* Frames decoded in the runs checked for liveness.
LiveFrames == 3
LiveRoomFrames == 2
\* Capacity of Client.Send (256 in the source), scaled down.
MailboxCap == 1
\* Capacity of RoomHub.Broadcast (256 in the source), scaled down.
BroadcastCap == 1

\* ---------------------------------------------------------------- domains
\* The WebSocket connections that may be opened.
Sessions == {1, 2}
RoomIds == {7, 8}
Bodies == {"hi"}
\* Session c authenticates as user c + 1.
UserOf(c) == c + 1
\* The registered users: those of the sessions, and user 4, who has no session.
Users == {UserOf(c) : c \in Sessions} \cup {4}
\* users.id 1 is the System user (createTables).
SystemUser == 1
\* room_members rows <<user_id, room_id, role>> present when the process
\* starts: user 2 created both rooms, user 3 joined room 7.
InitMembers == {<<2, 7, "admin">>, <<2, 8, "admin">>, <<3, 7, "member">>}

NoMsg == [type |-> "none", room_id |-> 0, id |-> 0, sender_id |-> 0, text |-> ""]
ErrorMsg(content) ==
    [type |-> "error", room_id |-> 0, id |-> 0, sender_id |-> 0, text |-> content]
RoomMessage(row) ==
    [type |-> "roomMessage", room_id |-> row.room_id, id |-> row.id,
     sender_id |-> row.sender_id, text |-> row.text]

VARIABLES
    member,      \* room_members table: set of <<user id, room id, role>>
    messages,    \* messages table: sequence of rows, in insert order
    Rooms,       \* RoomManager.Rooms: room id -> hub object stored (0: no entry)
    created,     \* room id -> number of RoomHub objects constructed for it
    running,     \* room id -> number of RoomHub.Run loops started for it
    Clients,     \* RoomHub.Clients, per room
    Broadcast,   \* RoomHub.Broadcast channel contents, per room
    taken,       \* envelopes the hub's loop took from Broadcast, in order (history)
    Send,        \* Client.Send channel contents, per session
    sendClosed,  \* number of close(client.Send) calls that completed, per session
    conn,        \* Client.Conn: "none" | "open" | "closed"
    rp,          \* read pump position, per session
    rpMsg,       \* the envelope a read pump is blocked sending
    wp,          \* write pump position, per session
    written,     \* envelopes the write pump wrote to the transport, in order
    evictReq,    \* eviction goroutines blocked on Manager.Unregister, per session
    mgrClient,   \* the client whose Unregister the manager is handling (0: at select)
    mgrTodo,     \* hubs the manager's range loop has not visited yet
    httpOut,     \* envelopes HTTP handlers are blocked sending to a hub
    https,       \* HTTP membership requests served so far
    frames,      \* frames decoded so far
    budget,      \* the run's bounds on frames and HTTP requests
    panicked,    \* "none", or the runtime panic that ended the process
    last,        \* the step just taken (history)
    chat,        \* the Chat component of the local user's browser: its state and refs
    chatLast,    \* the event the component just handled (history)
    single       \* the single-hub server: its Hub, clients, pumps and messages table

vars == <<member, messages, Rooms, created, running, Clients, Broadcast, taken, Send,
          sendClosed, conn, rp, rpMsg, wp, written, evictReq, mgrClient, mgrTodo,
          httpOut, https, frames, budget, panicked, last, chat, chatLast, single>>

clientVars == <<chat, chatLast>>
serverVars == <<member, messages, Rooms, created, running, Clients, Broadcast, taken, Send,
                sendClosed, conn, rp, rpMsg, wp, written, evictReq, mgrClient, mgrTodo,
                httpOut, https, frames, budget, panicked, last>>

dbVars == <<member, messages>>
mapVars == <<Rooms, created, running>>
hubVars == <<Clients, Broadcast, taken>>
mgrVars == <<mgrClient, mgrTodo>>
httpVars == <<httpOut, https>>
limits == <<frames, budget>>

\* The token query parameter of a /ws request: absent, or a JWT with its
\* signing method, the key it was signed with and whether it has not expired.
NoToken == [present |-> FALSE, alg |-> "", key |-> "", live |-> FALSE]
Tokens ==
    {NoToken} \cup
    {[present |-> TRUE, alg |-> a, key |-> k, live |-> l] :
        a \in {"HS256", "none"}, k \in {"jwtKey", "other"}, l \in BOOLEAN}

\* The steps recorded: handshakes, decoded frames, submissions to a hub,
\* fan-outs, the manager's steps and served HTTP requests. Any other step
\* resets the record.
NoStep ==
    [op |-> "none", c |-> 0, room |-> 0, res |-> "", msg |-> NoMsg, hub |-> 0, db |-> TRUE,
     token |-> NoToken, claimed |-> 0]
Step(op, c, room, res, msg) ==
    [op |-> op, c |-> c, room |-> room, res |-> res, msg |-> msg, hub |-> 0, db |-> TRUE,
     token |-> NoToken, claimed |-> 0]
HubStep(op, c, room, res, msg, hub) ==
    [op |-> op, c |-> c, room |-> room, res |-> res, msg |-> msg, hub |-> hub, db |-> TRUE,
     token |-> NoToken, claimed |-> 0]
\* The record of a handshake: the token the request carried.
Presented(step, token) == [step EXCEPT !.token = token]
\* The record of a frame for which the membership query was run: db tells
\* whether the query returned without error.
Queried(step, dbOk) == [step EXCEPT !.db = dbOk]
\* The record of a sendMessage frame: the sender id the client wrote into
\* the frame's message object.
Claimed(step, claimed) == [step EXCEPT !.claimed = claimed]

\* ---------------------------------------------------------------- client
\* The Chat component of the user of session 1. The bodies it sends, and the
\* bounds of its runs: rows in the messages table, messages it sends.
ChatBodies == {"hi", "yo"}
LocalUser == UserOf(1)
MaxRows == 2
MaxSends == 2
MaxUnread == 1

\* The WebSocket handlers are made by an effect with no dependencies, at
\* mount: the currentUser and the messages they read are the component's
\* state of its first render.
MountedUserId == 0
MountedMessages == <<>>

\* An entry of the message list. A temporary id ("temp-" and a clock
\* reading, a string no canonical id equals) is a negative number here.
Entry(id, senderId, text, isOptimistic) ==
    [id |-> id, senderId |-> senderId, text |-> text, isOptimistic |-> isOptimistic]
\* ws.onmessage: newMessage, from a roomMessage envelope.
FromEnvelope(data) == Entry(data.id, data.sender_id, data.text, FALSE)
\* fetchMessages: formattedMessages, from a row of the history response.
FromRow(m) == Entry(m.id, m.sender_id, m.text, FALSE)

\* The room's rows the history request returns: those saved when the server
\* ran the query, oldest first.
History(r, n) ==
    LET rows == SelectSeq(SubSeq(messages, 1, n), LAMBDA m : m.room_id = r)
    IN  [i \in 1..Len(rows) |-> FromRow(rows[i])]

\* The component after mount, its socket open: no active room, empty list
\* and cache. marking holds the rooms whose fetchMessages awaits
\* markRoomAsRead; temps counts the temporary ids handed out, sent the
\* sendMessage frames written to the socket; unread holds the unread field
\* of the rooms of the list; token tells whether a token is stored. ws is
\* "open", "closed" (closed with a code other than 1000) or "ended" (closed
\* with code 1000).
ChatMounted ==
    [messages |-> <<>>, messagesCache |-> [r \in RoomIds |-> <<>>], activeRoomId |-> 0,
     marking |-> {}, ws |-> "open", reconnected |-> FALSE, temps |-> 0,
     rooms |-> <<>>, sent |-> 0, unread |-> [r \in RoomIds |-> 0],
     mounted |-> TRUE, token |-> TRUE]
\* The events recorded. Of a roomMessage: pending, the list shown held an
\* optimistic entry of the envelope's text; known, the room's cached list
\* held the envelope's id.
NoEvent == [op |-> "none", data |-> NoMsg, pending |-> FALSE, known |-> FALSE]
Event(op, data) == [op |-> op, data |-> data, pending |-> FALSE, known |-> FALSE]
Received(data, pending, known) ==
    [op |-> "roomMessage", data |-> data, pending |-> pending, known |-> known]
ChatIdle == chat = ChatMounted /\ chatLast = NoEvent

\* The single-hub server keeps one Hub for every session. Capacities of
\* Hub.broadcast and Client.Send (256 each in the source), scaled down, and
\* the frames its read pumps decode in one run.
SingleBroadcastCap == 1
SingleSendCap == 1
SingleFrames == 2
\* A WSMessage of the single-hub server.
WSMessage(type, senderId, content) ==
    [type |-> type, sender_id |-> senderId, content |-> content]
NoWSMessage == WSMessage("", 0, "")
\* init() and main() of the single-hub server: an empty Hub whose run loop
\* is at its select, no connection. pc is the position of Hub.run; readPump
\* and writePump those of a session's pumps; saved tells whether the INSERT
\* of the message a read pump holds succeeded (history).
SingleStart ==
    [clients |-> {}, broadcast |-> <<>>, pc |-> "select", msg |-> NoWSMessage,
     Send |-> [c \in Sessions |-> <<>>], closed |-> [c \in Sessions |-> FALSE],
     readPump |-> [c \in Sessions |-> "none"],
     held |-> [c \in Sessions |-> NoWSMessage],
     saved |-> [c \in Sessions |-> TRUE],
     writePump |-> [c \in Sessions |-> "none"],
     unregister |-> [c \in Sessions |-> 0],
     rows |-> <<>>, frames |-> 0]
SingleIdle == single = SingleStart

\* The process after init() and main(): empty manager, no sessions.
Start ==
    /\ member = InitMembers
    /\ messages = <<>>
    /\ Rooms = [r \in RoomIds |-> 0]
    /\ created = [r \in RoomIds |-> 0]
    /\ running = [r \in RoomIds |-> 0]
    /\ Clients = [r \in RoomIds |-> {}]
    /\ Broadcast = [r \in RoomIds |-> <<>>]
    /\ taken = [r \in RoomIds |-> <<>>]
    /\ Send = [c \in Sessions |-> <<>>]
    /\ sendClosed = [c \in Sessions |-> 0]
    /\ conn = [c \in Sessions |-> "none"]
    /\ rp = [c \in Sessions |-> "none"]
    /\ rpMsg = [c \in Sessions |-> NoMsg]
    /\ wp = [c \in Sessions |-> "none"]
    /\ written = [c \in Sessions |-> <<>>]
    /\ evictReq = [c \in Sessions |-> 0]
    /\ mgrClient = 0
    /\ mgrTodo = {}
    /\ httpOut = {}
    /\ https = 0
    /\ frames = 0
    /\ panicked = "none"
    /\ last = NoStep
    /\ ChatIdle
    /\ SingleIdle

\* Both sessions connected; session 1 registered in rooms 7 and 8, session 2
\* in room 7: the state after the frames joinRoom(7) of session 1,
\* joinRoom(7) of session 2 and joinRoom(8) of session 1.
Joined(more) ==
    /\ member = InitMembers
    /\ messages = <<>>
    /\ Rooms = [r \in RoomIds |-> 1]
    /\ created = [r \in RoomIds |-> 1]
    /\ running = [r \in RoomIds |-> 1]
    /\ Clients = [r \in RoomIds |-> IF r = 7 THEN {1, 2} ELSE {1}]
    /\ Broadcast = [r \in RoomIds |-> <<>>]
    /\ taken = [r \in RoomIds |-> <<>>]
    /\ Send = [c \in Sessions |-> <<>>]
    /\ sendClosed = [c \in Sessions |-> 0]
    /\ conn = [c \in Sessions |-> "open"]
    /\ rp = [c \in Sessions |-> "read"]
    /\ rpMsg = [c \in Sessions |-> NoMsg]
    /\ wp = [c \in Sessions |-> "run"]
    /\ written = [c \in Sessions |-> <<>>]
    /\ evictReq = [c \in Sessions |-> 0]
    /\ mgrClient = 0
    /\ mgrTodo = {}
    /\ httpOut = {}
    /\ https = 0
    /\ frames = 3
    /\ panicked = "none"
    /\ last = HubStep("joinRoom", 1, 8, "ok", NoMsg, 1)
    /\ budget = [frames |-> 3 + more, http |-> 0]
    /\ ChatIdle
    /\ SingleIdle

\* A messages row with a given id.
NewRowAt(id, r, u, content) ==
    [id |-> id, room_id |-> r, sender_id |-> u, text |-> content]

\* Sessions only: no HTTP membership request is served.
Init ==
    /\ Start
    /\ budget = [frames |-> MaxFrames, http |-> 0]

\* Both sessions connected, session 1 registered in room 7 (the state after
\* its frame joinRoom(7)); room 8 has no hub yet. Sessions and HTTP membership
\* requests go on from there.
InitHttp ==
    /\ member = InitMembers
    /\ messages = <<>>
    /\ Rooms = [r \in RoomIds |-> IF r = 7 THEN 1 ELSE 0]
    /\ created = [r \in RoomIds |-> IF r = 7 THEN 1 ELSE 0]
    /\ running = [r \in RoomIds |-> IF r = 7 THEN 1 ELSE 0]
    /\ Clients = [r \in RoomIds |-> IF r = 7 THEN {1} ELSE {}]
    /\ Broadcast = [r \in RoomIds |-> <<>>]
    /\ taken = [r \in RoomIds |-> <<>>]
    /\ Send = [c \in Sessions |-> <<>>]
    /\ sendClosed = [c \in Sessions |-> 0]
    /\ conn = [c \in Sessions |-> "open"]
    /\ rp = [c \in Sessions |-> "read"]
    /\ rpMsg = [c \in Sessions |-> NoMsg]
    /\ wp = [c \in Sessions |-> "run"]
    /\ written = [c \in Sessions |-> <<>>]
    /\ evictReq = [c \in Sessions |-> 0]
    /\ mgrClient = 0
    /\ mgrTodo = {}
    /\ httpOut = {}
    /\ https = 0
    /\ frames = 1
    /\ panicked = "none"
    /\ last = HubStep("joinRoom", 1, 7, "ok", NoMsg, 1)
    /\ budget = [frames |-> 1 + HttpFrames, http |-> MaxHttp]
    /\ ChatIdle
    /\ SingleIdle

InitRoom == Joined(RoomFrames)

\* Members come and go: the sessions have joined their rooms as in Joined,
\* and HTTP membership requests are served from there on.
InitMember ==
    /\ member = InitMembers
    /\ messages = <<>>
    /\ Rooms = [r \in RoomIds |-> 1]
    /\ created = [r \in RoomIds |-> 1]
    /\ running = [r \in RoomIds |-> 1]
    /\ Clients = [r \in RoomIds |-> IF r = 7 THEN {1, 2} ELSE {1}]
    /\ Broadcast = [r \in RoomIds |-> <<>>]
    /\ taken = [r \in RoomIds |-> <<>>]
    /\ Send = [c \in Sessions |-> <<>>]
    /\ sendClosed = [c \in Sessions |-> 0]
    /\ conn = [c \in Sessions |-> "open"]
    /\ rp = [c \in Sessions |-> "read"]
    /\ rpMsg = [c \in Sessions |-> NoMsg]
    /\ wp = [c \in Sessions |-> "run"]
    /\ written = [c \in Sessions |-> <<>>]
    /\ evictReq = [c \in Sessions |-> 0]
    /\ mgrClient = 0
    /\ mgrTodo = {}
    /\ httpOut = {}
    /\ https = 0
    /\ frames = 3
    /\ panicked = "none"
    /\ last = HubStep("joinRoom", 1, 8, "ok", NoMsg, 1)
    /\ budget = [frames |-> 3 + HttpFrames, http |-> MaxHttp]
    /\ ChatIdle
    /\ SingleIdle

\* Slow consumers: the state after the sessions joined their rooms and
\* session 1's sendMessage(7, "hi") was saved, submitted and fanned out by
\* room 7's hub, before either write pump has run.
InitSlow ==
    /\ member = InitMembers
    /\ messages = <<NewRowAt(1, 7, UserOf(1), "hi")>>
    /\ Rooms = [r \in RoomIds |-> 1]
    /\ created = [r \in RoomIds |-> 1]
    /\ running = [r \in RoomIds |-> 1]
    /\ Clients = [r \in RoomIds |-> IF r = 7 THEN {1, 2} ELSE {1}]
    /\ Broadcast = [r \in RoomIds |-> <<>>]
    /\ taken = [r \in RoomIds |->
                  IF r = 7 THEN <<RoomMessage(NewRowAt(1, 7, UserOf(1), "hi"))>> ELSE <<>>]
    /\ Send = [c \in Sessions |-> <<RoomMessage(NewRowAt(1, 7, UserOf(1), "hi"))>>]
    /\ sendClosed = [c \in Sessions |-> 0]
    /\ conn = [c \in Sessions |-> "open"]
    /\ rp = [c \in Sessions |-> "read"]
    /\ rpMsg = [c \in Sessions |-> NoMsg]
    /\ wp = [c \in Sessions |-> "run"]
    /\ written = [c \in Sessions |-> <<>>]
    /\ evictReq = [c \in Sessions |-> 0]
    /\ mgrClient = 0
    /\ mgrTodo = {}
    /\ httpOut = {}
    /\ https = 0
    /\ frames = 4
    /\ panicked = "none"
    /\ last = Step("fanOut", 0, 7, "", RoomMessage(NewRowAt(1, 7, UserOf(1), "hi")))
    /\ budget = [frames |-> 4 + SlowFrames, http |-> 0]
    /\ ChatIdle
    /\ SingleIdle

InitLive ==
    /\ Start
    /\ budget = [frames |-> LiveFrames, http |-> 0]

InitLiveRoom == Joined(LiveRoomFrames)

Alive == panicked = "none"
\* RoomManager.mu: held by the manager for the whole range over m.Rooms.
MuFree == mgrClient = 0

\* ---------------------------------------------------------------- helpers
\* A gate whose query forgets the room: any member of some room passes for
\* every existing room.
isUserInAnyRoom(u, r, dbOk) == dbOk /\ r \in RoomIds /\ \E row \in member : row[1] = u

\* isUserInRoom: a failed query is logged and answers false.
\* A gate that lets the frame through when the query returns an error.
isUserInRoomFailOpen(u, r, dbOk) ==
    (~dbOk /\ r \in RoomIds) \/ \E row \in member : row[1] = u /\ row[2] = r

isUserInRoom(u, r, dbOk) == dbOk /\ \E row \in member : row[1] = u /\ row[2] = r

\* INSERT INTO messages ... RETURNING: the row the insert gives back.
NewRow(r, u, content) ==
    [id |-> Len(messages) + 1, room_id |-> r, sender_id |-> u, text |-> content]

\* A registry that skips the lookup: every call makes, stores and starts a hub.
CreateRoomHub(r) ==
    /\ created' = [created EXCEPT ![r] = @ + 1]
    /\ Rooms' = [Rooms EXCEPT ![r] = created[r] + 1]
    /\ running' = [running EXCEPT ![r] = @ + 1]

\* RoomManager.GetOrCreateRoomHub, under m.mu: the stored hub, or a new one
\* that is stored and whose Run loop is started.
GetOrCreateRoomHub(r) ==
    IF Rooms[r] # 0
    THEN UNCHANGED mapVars
    ELSE /\ created' = [created EXCEPT ![r] = @ + 1]
         /\ Rooms' = [Rooms EXCEPT ![r] = created[r] + 1]
         /\ running' = [running EXCEPT ![r] = @ + 1]

\* c.Send <- error envelope in readPump: blocks while the mailbox is full.
\* On a closed channel the send panics: the pump unwinds into its deferred
\* function, which blocks on Manager.Unregister <- c before the runtime ends
\* the process.
SendError(c, content) ==
    IF sendClosed[c] > 0
    THEN /\ rp' = [rp EXCEPT ![c] = "panicking"]
         /\ UNCHANGED <<Send, rpMsg>>
    ELSE IF Len(Send[c]) < MailboxCap
    THEN /\ Send' = [Send EXCEPT ![c] = Append(@, ErrorMsg(content))]
         /\ UNCHANGED <<rp, rpMsg>>
    ELSE /\ rp' = [rp EXCEPT ![c] = "errsend"]
         /\ rpMsg' = [rpMsg EXCEPT ![c] = ErrorMsg(content)]
         /\ UNCHANGED Send

\* RoomHub.Run, case client := <-h.Register: h.Clients[client] = true.
\* A registration that is not idempotent: a second one undoes the first.
RegisterToggle(r, c) ==
    [Clients EXCEPT ![r] = IF c \in @ THEN @ \ {c} ELSE @ \cup {c}]
HubRegister(r, c) == [Clients EXCEPT ![r] = @ \cup {c}]

\* ---------------------------------------------------------------- handshake
\* A parse that decodes the token without verifying it.
parseJWTUnverified(token) == token.present

\* parseJWT: the claims are returned only for a token whose method is HMAC,
\* whose signature verifies under jwtKey and which has not expired.
parseJWT(token) ==
    token.present /\ token.alg = "HS256" /\ token.key = "jwtKey" /\ token.live

\* handleWebSocket: token check, then the Client is made, announced on
\* Manager.Register (received by the manager at its select) and given its
\* pumps.
handleWebSocket(c, token) ==
    /\ Alive
    /\ conn[c] = "none"
    /\ IF ~token.present \/ ~parseJWT(token)
       THEN /\ last' = Presented(Step("handshake", c, 0, "unauthorized", NoMsg), token)
            /\ UNCHANGED <<conn, rp, wp>>
       ELSE /\ MuFree
            /\ conn' = [conn EXCEPT ![c] = "open"]
            /\ rp' = [rp EXCEPT ![c] = "read"]
            /\ wp' = [wp EXCEPT ![c] = "run"]
            /\ last' = Presented(Step("handshake", c, 0, "ok", NoMsg), token)
    /\ UNCHANGED <<dbVars, mapVars, hubVars, Send, sendClosed, rpMsg, written,
                   evictReq, mgrVars, httpVars, limits, panicked>>
    /\ UNCHANGED <<clientVars, single>>

\* The peer closes the transport.
PeerClose(c) ==
    /\ Alive
    /\ conn[c] = "open"
    /\ conn' = [conn EXCEPT ![c] = "closed"]
    /\ last' = NoStep
    /\ UNCHANGED <<dbVars, mapVars, hubVars, Send, sendClosed, rp, rpMsg, wp, written,
                   evictReq, mgrVars, httpVars, limits, panicked>>
    /\ UNCHANGED <<clientVars, single>>

\* ---------------------------------------------------------------- read pump
\* readPump, case "joinRoom": gate, then GetOrCreateRoomHub and
\* hub.Register <- c, which the hub's Run loop receives and applies.
\* A hub that replays the last envelope it took to a session it registers.
ReplayAtRegister(r, c) ==
    [Send EXCEPT ![c] = IF taken[r] # <<>> /\ Len(@) < MailboxCap
                        THEN Append(@, taken[r][Len(taken[r])])
                        ELSE @]

\* RoomHub.Run, case client := <-h.Register: the mailboxes afterwards. The
\* case only sets h.Clients[client]; nothing is sent.
MailboxesAtRegister(r, c) == Send

ReadJoinRoom(c, r, dbOk) ==
    /\ Alive
    /\ rp[c] = "read"
    /\ conn[c] = "open"
    /\ frames < budget.frames
    /\ frames' = frames + 1
    /\ IF ~isUserInRoom(UserOf(c), r, dbOk)
       THEN /\ SendError(c, "Not authorized for this room")
            /\ last' = Queried(Step("joinRoom", c, r, "unauthorized", NoMsg), dbOk)
            /\ UNCHANGED <<mapVars, Clients>>
       ELSE /\ MuFree
            /\ GetOrCreateRoomHub(r)
            /\ Clients' = HubRegister(r, c)
            /\ Send' = MailboxesAtRegister(r, c)
            /\ last' = Queried(HubStep("joinRoom", c, r, "ok", NoMsg, Rooms'[r]), dbOk)
            /\ UNCHANGED <<rp, rpMsg>>
    /\ UNCHANGED <<dbVars, Broadcast, taken, sendClosed, conn, wp, written, evictReq,
                   mgrVars, httpVars, budget, panicked>>
    /\ UNCHANGED <<clientVars, single>>

\* A read pump that takes the sender from the frame.
ClaimedSender(c, claimed) == claimed

\* readPump, case "sendMessage": the sender of the row and of the envelope
\* is c.ID, passed to the INSERT and read back from it (Sender and Avatar
\* are likewise c.Username and c.Avatar); the frame's message object is
\* not consulted.
SenderOf(c, claimed) == UserOf(c)

\* A read pump that ignores the insert's error: the envelope is built and
\* handed on whether or not the row was saved.
SaveMessageUnchecked(c, r, content, claimed, insertOk) ==
    /\ messages' = IF insertOk
                   THEN Append(messages, NewRow(r, SenderOf(c, claimed), content))
                   ELSE messages
    /\ rp' = [rp EXCEPT ![c] = "broadcast"]
    /\ rpMsg' = [rpMsg EXCEPT
                    ![c] = RoomMessage(NewRow(r, SenderOf(c, claimed), content))]

\* readPump, case "sendMessage", from the insert on: a failed insert is
\* logged and the frame dropped; a saved row becomes the envelope the pump
\* goes on to hand to the room's hub.
SaveMessage(c, r, content, claimed, insertOk) ==
    IF ~insertOk
    THEN UNCHANGED <<messages, rp, rpMsg>>
    ELSE /\ messages' = Append(messages, NewRow(r, SenderOf(c, claimed), content))
         /\ rp' = [rp EXCEPT ![c] = "broadcast"]
         /\ rpMsg' = [rpMsg EXCEPT
                         ![c] = RoomMessage(NewRow(r, SenderOf(c, claimed), content))]

\* A validation that looks at the content only.
EmptyContentOnly(content, r) == content = ""

\* readPump, case "sendMessage": msg.Content == "" || msg.RoomID == 0.
InvalidFrame(content, r) == content = "" \/ r = 0

\* readPump, case "sendMessage": validation, gate, insert. claimed is the
\* sender id of the frame's message object, which only the insert could
\* have used.
ReadSendMessage(c, r, content, dbOk, insertOk) ==
    /\ Alive
    /\ rp[c] = "read"
    /\ conn[c] = "open"
    /\ frames < budget.frames
    /\ frames' = frames + 1
    /\ IF InvalidFrame(content, r)
       THEN /\ last' = Step("sendMessage", c, r, "invalid", NoMsg)
            /\ UNCHANGED <<messages, Send, rp, rpMsg>>
       ELSE IF ~isUserInRoom(UserOf(c), r, dbOk)
       THEN /\ SendError(c, "Not authorized to send to this room")
            /\ last' = Queried(Step("sendMessage", c, r, "unauthorized", NoMsg), dbOk)
            /\ UNCHANGED messages
       ELSE /\ \E claimed \in Users :
                 /\ SaveMessage(c, r, content, claimed, insertOk)
                 /\ last' = Claimed(Queried(Step("sendMessage", c, r,
                                                  IF insertOk THEN "saved"
                                                  ELSE "insertFailed",
                                                  IF rp'[c] = "broadcast" THEN rpMsg'[c]
                                                  ELSE NoMsg),
                                             dbOk),
                                     claimed)
            /\ UNCHANGED Send
    /\ UNCHANGED <<member, mapVars, hubVars, sendClosed, conn, wp, written, evictReq,
                   mgrVars, httpVars, budget, panicked>>
    /\ UNCHANGED <<clientVars, single>>

\* readPump after a successful insert: GetOrCreateRoomHub, then
\* hub.Broadcast <- envelope (blocks while the channel is full).
RpBroadcast(c) ==
    /\ Alive
    /\ rp[c] = "broadcast"
    /\ MuFree
    /\ Len(Broadcast[rpMsg[c].room_id]) < BroadcastCap
    /\ GetOrCreateRoomHub(rpMsg[c].room_id)
    /\ Broadcast' = [Broadcast EXCEPT ![rpMsg[c].room_id] = Append(@, rpMsg[c])]
    /\ rp' = [rp EXCEPT ![c] = "read"]
    /\ rpMsg' = [rpMsg EXCEPT ![c] = NoMsg]
    /\ last' = HubStep("submit", c, rpMsg[c].room_id, "", rpMsg[c],
                       Rooms'[rpMsg[c].room_id])
    /\ UNCHANGED <<dbVars, Clients, taken, Send, sendClosed, conn, wp, written,
                   evictReq, mgrVars, httpVars, limits, panicked>>
    /\ UNCHANGED <<clientVars, single>>

\* readPump blocked in c.Send <- error envelope: the send completes when the
\* mailbox has room, and panics if the mailbox was closed meanwhile.
RpErrSend(c) ==
    /\ Alive
    /\ rp[c] = "errsend"
    /\ IF sendClosed[c] > 0
       THEN /\ rp' = [rp EXCEPT ![c] = "panicking"]
            /\ rpMsg' = [rpMsg EXCEPT ![c] = NoMsg]
            /\ UNCHANGED Send
       ELSE /\ Len(Send[c]) < MailboxCap
            /\ Send' = [Send EXCEPT ![c] = Append(@, rpMsg[c])]
            /\ rp' = [rp EXCEPT ![c] = "read"]
            /\ rpMsg' = [rpMsg EXCEPT ![c] = NoMsg]
    /\ last' = NoStep
    /\ UNCHANGED <<dbVars, mapVars, hubVars, sendClosed, conn, wp, written, evictReq,
                   mgrVars, httpVars, limits, panicked>>
    /\ UNCHANGED <<clientVars, single>>

\* readPump: ReadJSON fails on a closed transport; the loop breaks and the
\* deferred function blocks on Manager.Unregister <- c.
ReadFail(c) ==
    /\ Alive
    /\ rp[c] = "read"
    /\ conn[c] = "closed"
    /\ rp' = [rp EXCEPT ![c] = "unregister"]
    /\ last' = NoStep
    /\ UNCHANGED <<dbVars, mapVars, hubVars, Send, sendClosed, conn, rpMsg, wp,
                   written, evictReq, mgrVars, httpVars, limits, panicked>>
    /\ UNCHANGED <<clientVars, single>>

\* ---------------------------------------------------------------- write pump
\* writePump: for msg := range c.Send { WriteJSON }, then Conn.Close().
writePump(c) ==
    /\ Alive
    /\ wp[c] = "run"
    /\ IF Send[c] # <<>>
       THEN /\ Send' = [Send EXCEPT ![c] = Tail(@)]
            /\ IF conn[c] = "open"
               THEN /\ written' = [written EXCEPT ![c] = Append(@, Head(Send[c]))]
                    /\ last' = NoStep
                    /\ UNCHANGED <<wp, conn>>
               ELSE /\ wp' = [wp EXCEPT ![c] = "done"]
                    /\ last' = NoStep
                    /\ UNCHANGED <<written, conn>>
       ELSE /\ sendClosed[c] > 0
            /\ wp' = [wp EXCEPT ![c] = "done"]
            /\ conn' = [conn EXCEPT ![c] = "closed"]
            /\ last' = NoStep
            /\ UNCHANGED <<Send, written>>
    /\ UNCHANGED <<dbVars, mapVars, hubVars, sendClosed, rp, rpMsg, evictReq, mgrVars,
                   httpVars, limits, panicked>>
    /\ UNCHANGED <<clientVars, single>>

\* ---------------------------------------------------------------- room hub
\* A hub that serves every connected client, whatever its rooms.
AllClients(r) == {c \in Sessions : conn[c] # "none"}

\* for client := range h.Clients
FanOutTargets(r) == Clients[r]

\* One non-blocking delivery of the fan-out loop: select { case client.Send <-
\* message: default: go func ... Manager.Unregister <- c }.
Deliver(c, m) ==
    IF Len(Send[c]) < MailboxCap THEN Append(Send[c], m) ELSE Send[c]

\* The mailboxes and eviction goroutines after the loop has served S.
DeliverTo(S, m) == [c \in Sessions |-> IF c \in S THEN Deliver(c, m) ELSE Send[c]]
EvictAmong(S) ==
    [c \in Sessions |->
        IF c \in S /\ Len(Send[c]) >= MailboxCap THEN evictReq[c] + 1 ELSE evictReq[c]]

\* RoomHub.Run, case message := <-h.Broadcast: the fan-out under h.mu.RLock.
\* A send on a closed mailbox panics; the clients the range reached before
\* it (any of the others) have been served.
HubFanOut(r) ==
    /\ Alive
    /\ Broadcast[r] # <<>>
    /\ Broadcast' = [Broadcast EXCEPT ![r] = Tail(@)]
    /\ taken' = [taken EXCEPT ![r] = Append(@, Head(Broadcast[r]))]
    /\ IF \E c \in FanOutTargets(r) : sendClosed[c] > 0
       THEN /\ \E S \in SUBSET {c \in FanOutTargets(r) : sendClosed[c] = 0} :
                 /\ Send' = DeliverTo(S, Head(Broadcast[r]))
                 /\ evictReq' = EvictAmong(S)
            /\ panicked' = "send on closed channel"
       ELSE /\ Send' = DeliverTo(FanOutTargets(r), Head(Broadcast[r]))
            /\ evictReq' = EvictAmong(FanOutTargets(r))
            /\ UNCHANGED panicked
    /\ last' = Step("fanOut", 0, r, "", Head(Broadcast[r]))
    /\ UNCHANGED <<dbVars, mapVars, Clients, sendClosed, conn, rp, rpMsg, wp, written,
                   mgrVars, httpVars, limits>>
    /\ UNCHANGED <<clientVars, single>>

\* ---------------------------------------------------------------- manager
\* RoomManager.Run, case client := <-m.Unregister: the request of a read
\* pump's deferred function (which then closes the transport; a pump that
\* got here by a panic then ends the process) or of an eviction goroutine.
\* m.mu is taken and the range over m.Rooms begins.
MgrUnregister(c, fromPump) ==
    /\ Alive
    /\ MuFree
    /\ IF fromPump
       THEN /\ rp[c] \in {"unregister", "panicking"}
            /\ rp' = [rp EXCEPT ![c] = "done"]
            /\ conn' = [conn EXCEPT ![c] = "closed"]
            /\ panicked' = IF rp[c] = "panicking" THEN "send on closed channel"
                           ELSE panicked
            /\ UNCHANGED evictReq
       ELSE /\ evictReq[c] > 0
            /\ evictReq' = [evictReq EXCEPT ![c] = @ - 1]
            /\ UNCHANGED <<rp, conn, panicked>>
    /\ IF \E r \in RoomIds : Rooms[r] # 0
       THEN /\ mgrClient' = c
            /\ mgrTodo' = {r \in RoomIds : Rooms[r] # 0}
       ELSE UNCHANGED mgrVars
    /\ last' = Step("unregister", c, 0, IF fromPump THEN "pump" ELSE "evict", NoMsg)
    /\ UNCHANGED <<dbVars, mapVars, hubVars, Send, sendClosed, rpMsg, wp, written,
                   httpVars, limits>>
    /\ UNCHANGED <<clientVars, single>>

\* A manager that takes every hub to hold the client.
HeldByEveryHub(r, c) == TRUE

\* if _, ok := hub.Clients[client]; ok
HeldByHub(r, c) == c \in Clients[r]

\* One iteration of for _, hub := range m.Rooms, under hub.mu: a hub that
\* holds the client deletes it and closes client.Send; closing a closed
\* channel panics. After the last hub m.mu is released.
MgrVisit(r) ==
    /\ Alive
    /\ mgrClient # 0
    /\ r \in mgrTodo
    /\ mgrTodo' = mgrTodo \ {r}
    /\ IF HeldByHub(r, mgrClient)
       THEN /\ Clients' = [Clients EXCEPT ![r] = @ \ {mgrClient}]
            /\ IF sendClosed[mgrClient] > 0
               THEN /\ panicked' = "close of closed channel"
                    /\ UNCHANGED sendClosed
               ELSE /\ sendClosed' = [sendClosed EXCEPT ![mgrClient] = @ + 1]
                    /\ UNCHANGED panicked
            /\ last' = Step("visit", mgrClient, r, "removed", NoMsg)
       ELSE /\ last' = Step("visit", mgrClient, r, "absent", NoMsg)
            /\ UNCHANGED <<Clients, sendClosed, panicked>>
    /\ mgrClient' = IF mgrTodo' = {} /\ panicked' = "none" THEN 0 ELSE mgrClient
    /\ UNCHANGED <<dbVars, mapVars, Broadcast, taken, Send, conn, rp, rpMsg, wp,
                   written, evictReq, httpVars, limits>>
    /\ UNCHANGED <<clientVars, single>>

\* ---------------------------------------------------------------- HTTP
RowsOf(u, r) == {row \in member : row[1] = u /\ row[2] = r}
RoleOf(u, r) == IF RowsOf(u, r) = {} THEN "none" ELSE (CHOOSE row \in RowsOf(u, r) : TRUE)[3]
AdminCount(r) == Cardinality({row \in member : row[2] = r /\ row[3] = "admin"})

\* handleJoinRoom: in one transaction the member row and the system message
\* are inserted; after the commit the handler resolves the hub and goes on
\* to send the system envelope to it.
handleJoinRoom(u, r, txOk) ==
    /\ Alive
    /\ https < budget.http
    /\ IF isUserInRoom(u, r, TRUE)
       THEN /\ UNCHANGED last
            /\ UNCHANGED <<dbVars, mapVars, httpVars>>
       ELSE IF ~txOk
       THEN /\ UNCHANGED last
            /\ UNCHANGED <<dbVars, mapVars, httpVars>>
       ELSE /\ MuFree
            /\ member' = member \cup {<<u, r, "member">>}
            /\ messages' = Append(messages, NewRow(r, SystemUser, "joined"))
            /\ GetOrCreateRoomHub(r)
            /\ httpOut' = httpOut \cup {RoomMessage(NewRow(r, SystemUser, "joined"))}
            /\ https' = https + 1
            /\ last' = HubStep("httpJoin", 0, r, "ok",
                               RoomMessage(NewRow(r, SystemUser, "joined")), Rooms'[r])
    /\ UNCHANGED <<hubVars, Send, sendClosed, conn, rp, rpMsg, wp, written, evictReq,
                   mgrVars, limits, panicked>>
    /\ UNCHANGED <<clientVars, single>>

\* An HTTP handler blocked in hub.Broadcast <- envelope completes the send.
HttpBroadcast(e) ==
    /\ Alive
    /\ e \in httpOut
    /\ Len(Broadcast[e.room_id]) < BroadcastCap
    /\ Broadcast' = [Broadcast EXCEPT ![e.room_id] = Append(@, e)]
    /\ httpOut' = httpOut \ {e}
    /\ last' = NoStep
    /\ UNCHANGED <<dbVars, mapVars, Clients, taken, Send, sendClosed, conn, rp, rpMsg,
                   wp, written, evictReq, mgrVars, https, limits, panicked>>
    /\ UNCHANGED <<clientVars, single>>

\* handleLeaveRoom: the member row is deleted unless the user is the only
\* admin of the room.
handleLeaveRoom(u, r) ==
    /\ Alive
    /\ https < budget.http
    /\ IF RoleOf(u, r) = "none"
       THEN /\ UNCHANGED last
            /\ UNCHANGED <<member, https>>
       ELSE IF RoleOf(u, r) = "admin" /\ AdminCount(r) = 1
       THEN /\ UNCHANGED last
            /\ UNCHANGED <<member, https>>
       ELSE /\ member' = member \ RowsOf(u, r)
            /\ https' = https + 1
            /\ last' = Step("httpLeave", 0, r, "ok", NoMsg)
    /\ UNCHANGED <<messages, mapVars, hubVars, Send, sendClosed, conn, rp, rpMsg, wp,
                   written, evictReq, mgrVars, httpOut, limits, panicked>>
    /\ UNCHANGED <<clientVars, single>>

\* handleRemoveMember: an admin of the room deletes another user's member row.
handleRemoveMember(u, memberID, r) ==
    /\ Alive
    /\ https < budget.http
    /\ IF RoleOf(u, r) # "admin"
       THEN /\ UNCHANGED last
            /\ UNCHANGED <<member, https>>
       ELSE IF memberID = u
       THEN /\ UNCHANGED last
            /\ UNCHANGED <<member, https>>
       ELSE IF RowsOf(memberID, r) = {}
       THEN /\ UNCHANGED last
            /\ UNCHANGED <<member, https>>
       ELSE /\ member' = member \ RowsOf(memberID, r)
            /\ https' = https + 1
            /\ last' = Step("httpRemove", 0, r, "ok", NoMsg)
    /\ UNCHANGED <<messages, mapVars, hubVars, Send, sendClosed, conn, rp, rpMsg, wp,
                   written, evictReq, mgrVars, httpOut, limits, panicked>>
    /\ UNCHANGED <<clientVars, single>>

\* ---------------------------------------------------------------- Chat
\* The server saves a message of some user in some room (readPump's insert).
InsertMessage(r, u, content) ==
    /\ Len(messages) < MaxRows
    /\ messages' = Append(messages, NewRow(r, u, content))
    /\ chatLast' = Event("insert", NoMsg)
    /\ UNCHANGED <<member, mapVars, hubVars, Send, sendClosed, conn, rp, rpMsg, wp, written,
                   evictReq, mgrVars, httpVars, limits, panicked, last, chat, single>>

\* A list that is never found to hold the id.
neverExists(list, id) == FALSE

\* ws.onmessage: alreadyExists, the list holds an entry of this id.
alreadyExists(list, id) == \E i \in 1..Len(list) : list[i].id = id

\* ws.onmessage: updatedRoomMessages, from the room's cached list and the
\* envelope. An envelope of the handlers' own user first drops the cached
\* optimistic entries of the same text.
Reconcile(currentRoomMessages, data) ==
    LET newMessage == FromEnvelope(data)
        isOwnMessage == newMessage.senderId = MountedUserId
        filtered ==
            IF isOwnMessage
            THEN SelectSeq(currentRoomMessages,
                           LAMBDA m : ~(/\ m.isOptimistic
                                        /\ m.text = newMessage.text
                                        /\ m.senderId = MountedUserId))
            ELSE currentRoomMessages
    IN  IF alreadyExists(filtered, newMessage.id)
        THEN filtered
        ELSE Append(filtered, newMessage)

\* A list update that keeps what is shown and adds the newest entry.
appendMessage(prev, updated) ==
    IF updated = <<>> THEN prev ELSE Append(prev, updated[Len(updated)])

\* setMessages(updatedRoomMessages): the list shown becomes the given one.
setMessages(prev, updated) == updated

\* prev.filter(m => !m.isOptimistic)
WithoutOptimistic(list) == SelectSeq(list, LAMBDA m : ~m.isOptimistic)

\* ws.onmessage (of the first socket and of the reconnected one), type
\* "roomMessage": any saved row may arrive, and arrive again.
\* setRooms of the first socket's handler: the room of the envelope is
\* moved to the front, the others keep their order; a list without the room
\* is left as it is. (Of a room only its id is kept: the fields both
\* handlers update in place, lastMessage, lastSenderId and unread, are not.)
MoveToFront(rooms, roomId) ==
    IF \E k \in 1..Len(rooms) : rooms[k] = roomId
    THEN <<roomId>> \o SelectSeq(rooms, LAMBDA x : x # roomId)
    ELSE rooms

\* setRooms of the reconnected socket's handler: prevRooms.map, which
\* leaves every room in its place.
UpdateInPlace(rooms, roomId) == rooms

\* setRooms of ws.onmessage, type "roomMessage": the handler of the socket
\* that is open.
setRooms(rooms, roomId) ==
    IF chat.reconnected THEN UpdateInPlace(rooms, roomId) ELSE MoveToFront(rooms, roomId)

\* setRooms of the first socket's handler: isOwnMessage, which compares
\* with the currentUser of the handler's closure.
isOwnMessage(senderId) == senderId = MountedUserId

\* setRooms of the first socket's handler: the unread field of the room of
\* the envelope, if the list holds it, is incremented when the room is not
\* the active one and the message is not an own one.
IncrementUnread(unread, roomId, senderId) ==
    IF /\ \E k \in 1..Len(chat.rooms) : chat.rooms[k] = roomId
       /\ chat.activeRoomId # roomId
       /\ ~isOwnMessage(senderId)
    THEN [unread EXCEPT ![roomId] = @ + 1]
    ELSE unread

\* The unread fields after setRooms of ws.onmessage: the handler of the
\* reconnected socket does not touch them.
setUnread(unread, roomId, senderId) ==
    IF chat.reconnected THEN unread ELSE IncrementUnread(unread, roomId, senderId)

OnRoomMessage(i) ==
    /\ chat.ws = "open"
    /\ i \in 1..Len(messages)
    /\ LET data == RoomMessage(messages[i])
           roomId == data.room_id
           updated == Reconcile(chat.messagesCache[roomId], data)
       IN  /\ chat' = [chat EXCEPT
                         !.messagesCache[roomId] = updated,
                         !.messages = IF chat.activeRoomId = roomId
                                      THEN setMessages(@, updated) ELSE @,
                         !.rooms = setRooms(@, roomId),
                         !.unread = setUnread(@, roomId, data.sender_id)]
           /\ chat'.unread[roomId] <= MaxUnread
           /\ chatLast' = Received(data,
                                   \E j \in 1..Len(chat.messages) :
                                       /\ chat.messages[j].isOptimistic
                                       /\ chat.messages[j].text = data.text,
                                   \E j \in 1..Len(chat.messagesCache[roomId]) :
                                       chat.messagesCache[roomId][j].id = data.id)
    /\ UNCHANGED <<serverVars, single>>

\* ws.onmessage, type "error".
OnErrorEnvelope ==
    /\ chat.ws = "open"
    /\ chat' = IF chat.activeRoomId # 0
               THEN [chat EXCEPT
                        !.messagesCache[chat.activeRoomId] = WithoutOptimistic(MountedMessages),
                        !.messages = WithoutOptimistic(MountedMessages)]
               ELSE chat
    /\ chatLast' = Event("error", NoMsg)
    /\ UNCHANGED <<serverVars, single>>

\* ws.onerror (of either socket).
onerror ==
    /\ chat.ws = "open"
    /\ chat' = [chat EXCEPT !.messages = WithoutOptimistic(@)]
    /\ chatLast' = Event("onerror", NoMsg)
    /\ UNCHANGED <<serverVars, single>>

\* ws.onclose with a code other than 1000.
onclose ==
    /\ chat.ws = "open"
    /\ chat' = [chat EXCEPT !.ws = "closed"]
    /\ chatLast' = Event("onclose", NoMsg)
    /\ UNCHANGED <<serverVars, single>>

\* ws.onopen: the joinRoom frame for the active room, if there is one.
JoinFrame(roomId) ==
    IF roomId = 0 THEN NoMsg
    ELSE [type |-> "joinRoom", room_id |-> roomId, id |-> 0, sender_id |-> 0,
          text |-> ""]

\* The timer of the first socket's onclose: a second socket, with handlers
\* of the same code, whose onopen joins the active room; its own onclose
\* does nothing.
Reconnect ==
    /\ chat.ws = "closed"
    /\ ~chat.reconnected
    /\ IF chat.token
       THEN /\ chat' = [chat EXCEPT !.ws = "open", !.reconnected = TRUE]
            /\ chatLast' = Event("reconnect", JoinFrame(chat.activeRoomId))
       ELSE /\ chat' = [chat EXCEPT !.reconnected = TRUE]
            /\ chatLast' = Event("timer", NoMsg)
    /\ UNCHANGED <<serverVars, single>>

\* The cleanup of the socket effect, at unmount: an open socket is closed
\* with code 1000, for which onclose sets no timer. A timer already set is
\* left running.
unmount ==
    /\ chat.mounted
    /\ chat' = [chat EXCEPT !.mounted = FALSE,
                            !.ws = IF @ = "open" THEN "ended" ELSE @]
    /\ chatLast' = Event("unmount", NoMsg)
    /\ UNCHANGED <<serverVars, single>>

\* handleLogout: an open socket is closed with code 1000, the token is
\* removed, and the navigation to the login page unmounts the component.
handleLogout ==
    /\ chat.mounted
    /\ chat' = [chat EXCEPT !.mounted = FALSE, !.token = FALSE,
                            !.ws = IF @ = "open" THEN "ended" ELSE @]
    /\ chatLast' = Event("logout", NoMsg)
    /\ UNCHANGED <<serverVars, single>>

\* fetchMessages, up to its await of markRoomAsRead: the response (of a
\* query the server ran when it held n rows) replaces the list shown and the
\* room's cached list. The answer for a room without rows empties both:
\* the server encodes its nil slice as null, and fetchedMessages.map throws
\* into the catch, as a failed request does.
fetchMessages(r, n) ==
    /\ n \in 0..Len(messages)
    /\ chat' = IF History(r, n) # <<>>
               THEN [chat EXCEPT !.messages = History(r, n),
                                 !.messagesCache[r] = History(r, n),
                                 !.marking = @ \cup {r}]
               ELSE [chat EXCEPT !.messages = <<>>, !.messagesCache[r] = <<>>]
    /\ chatLast' = Event("fetch", NoMsg)
    /\ UNCHANGED <<serverVars, single>>

\* fetchMessages after markRoomAsRead has answered: the room's unread
\* field is reset, then setActiveRoomId(roomId).
setActiveRoomId(r) ==
    /\ r \in chat.marking
    /\ chat' = [chat EXCEPT !.activeRoomId = r, !.marking = @ \ {r},
                            !.unread[r] = 0]
    /\ chatLast' = Event("active", NoMsg)
    /\ UNCHANGED <<serverVars, single>>

\* A submit handler that never turns a message away.
AlwaysReady == TRUE

\* handleSendMessage: a room is active and the socket is open.
SocketReady == chat.activeRoomId # 0 /\ chat.ws = "open"

\* messagePayload: the sendMessage frame.
Frame(roomId, text) ==
    [type |-> "sendMessage", room_id |-> roomId, id |-> 0, sender_id |-> 0,
     text |-> text]

\* handleSendMessage: without a room or an open socket it returns; else the
\* optimistic entry is appended to the list shown and the sendMessage frame
\* goes out.
handleSendMessage(text) ==
    /\ chat.temps < MaxSends
    /\ IF SocketReady
       THEN /\ chat' = [chat EXCEPT
                         !.messages = Append(@, Entry(-(chat.temps + 1), LocalUser, text,
                                                     TRUE)),
                         !.temps = @ + 1,
                         !.sent = @ + 1]
            /\ chatLast' = Event("send", Frame(chat.activeRoomId, text))
       ELSE UNCHANGED clientVars
    /\ UNCHANGED <<serverVars, single>>

\* ---------------------------------------------------------------- system
Connect ==
    \E c \in Sessions, token \in Tokens : handleWebSocket(c, token)

\* The traffic of connected sessions: frames, submissions, fan-out, writes.
Traffic ==
    \/ \E c \in Sessions, r \in RoomIds \cup {0}, dbOk \in BOOLEAN :
          ReadJoinRoom(c, r, dbOk)
    \/ \E c \in Sessions, r \in RoomIds \cup {0}, content \in Bodies \cup {""},
          dbOk \in BOOLEAN, insertOk \in BOOLEAN :
          ReadSendMessage(c, r, content, dbOk, insertOk)
    \/ \E c \in Sessions : RpBroadcast(c)
    \/ \E c \in Sessions : RpErrSend(c)
    \/ \E c \in Sessions : writePump(c)
    \/ \E r \in RoomIds : HubFanOut(r)

\* Transports closing and the manager's unregister handling.
Teardown ==
    \/ \E c \in Sessions : PeerClose(c)
    \/ \E c \in Sessions : ReadFail(c)
    \/ \E c \in Sessions, fromPump \in BOOLEAN : MgrUnregister(c, fromPump)
    \/ \E r \in RoomIds : MgrVisit(r)

Pumps == Traffic \/ Teardown

Http ==
    \/ \E u \in Users, r \in RoomIds, txOk \in BOOLEAN : handleJoinRoom(u, r, txOk)
    \/ \E e \in httpOut : HttpBroadcast(e)
    \/ \E u \in Users, r \in RoomIds : handleLeaveRoom(u, r)
    \/ \E u \in Users, m \in Users, r \in RoomIds : handleRemoveMember(u, m, r)

Next == Connect \/ Pumps

NextHttp == Traffic \/ Http

\* The Chat component's events, and the rows the server saves meanwhile.
NextChat ==
    \/ \E r \in RoomIds, content \in ChatBodies : InsertMessage(r, LocalUser, content)
    \/ \E r \in RoomIds, content \in Bodies : InsertMessage(r, UserOf(2), content)
    \/ \E i \in 1..MaxRows : OnRoomMessage(i)
    \/ OnErrorEnvelope
    \/ onerror
    \/ onclose
    \/ Reconnect
    \/ \E r \in RoomIds, n \in 0..MaxRows : fetchMessages(r, n)
    \/ \E r \in RoomIds : setActiveRoomId(r)
    \/ \E text \in ChatBodies : handleSendMessage(text)

\* The room-based server driven by its sessions.
Spec == Init /\ [][Next]_vars

\* Connected sessions and the HTTP membership handlers, while no transport
\* closes.
SpecHttp == InitHttp /\ [][NextHttp]_vars

\* The server from the state in which the sessions have joined their rooms.
SpecRoom == InitRoom /\ [][Pumps]_vars

\* The Chat component, in state component after event ev, against a server
\* that saves and delivers messages and holds the one system message of the
\* user's joining room 7.
ChatStart(component, ev) ==
    /\ member = InitMembers
    /\ messages = <<NewRowAt(1, 7, SystemUser, "joined")>>
    /\ Rooms = [r \in RoomIds |-> 0]
    /\ created = [r \in RoomIds |-> 0]
    /\ running = [r \in RoomIds |-> 0]
    /\ Clients = [r \in RoomIds |-> {}]
    /\ Broadcast = [r \in RoomIds |-> <<>>]
    /\ taken = [r \in RoomIds |-> <<>>]
    /\ Send = [c \in Sessions |-> <<>>]
    /\ sendClosed = [c \in Sessions |-> 0]
    /\ conn = [c \in Sessions |-> "none"]
    /\ rp = [c \in Sessions |-> "none"]
    /\ rpMsg = [c \in Sessions |-> NoMsg]
    /\ wp = [c \in Sessions |-> "none"]
    /\ written = [c \in Sessions |-> <<>>]
    /\ evictReq = [c \in Sessions |-> 0]
    /\ mgrClient = 0
    /\ mgrTodo = {}
    /\ httpOut = {}
    /\ https = 0
    /\ frames = 0
    /\ panicked = "none"
    /\ last = NoStep
    /\ budget = [frames |-> 0, http |-> 0]
    /\ chat = component
    /\ chatLast = ev
    /\ SingleIdle

\* The state in which the user has opened room 7, whose history is the one
\* system message; rooms is the rooms list shown.
ChatOpened(rooms) ==
    ChatStart([ChatMounted EXCEPT
                  !.messages = History(7, 1),
                  !.messagesCache[7] = History(7, 1),
                  !.activeRoomId = 7,
                  !.rooms = rooms],
              Event("active", NoMsg))

\* The list request of the mount has not been answered: the rooms list is
\* the empty one of the first render.
InitChat == ChatOpened(<<>>)
SpecChat == InitChat /\ [][NextChat]_vars

\* The component after mount, before the user opens a room: no room is
\* active, nothing is shown, the rooms list is empty.
InitMounted == ChatStart(ChatMounted, NoEvent)
SpecMounted == InitMounted /\ [][NextChat]_vars

\* The Chat component until and after its unmount: once unmounted, only
\* the timers it left behind run.
NextUnmount ==
    \/ chat.mounted /\ NextChat
    \/ ~chat.mounted /\ Reconnect
    \/ unmount
    \/ handleLogout

SpecUnmount == InitChat /\ [][NextUnmount]_vars

\* The list request of the mount was answered with both rooms of the user.
InitRooms == ChatOpened(<<7, 8>>)
SpecRooms == InitRooms /\ [][NextChat]_vars

\* Joined sessions and the HTTP membership handlers, while no transport
\* closes.
SpecMember == InitMember /\ [][NextHttp]_vars

\* The server from the state in which a message waits unwritten in the
\* mailboxes.
SpecSlow == InitSlow /\ [][Pumps]_vars

\* Every goroutine that can take a step eventually takes it: the pumps' own
\* steps, the hubs' and the manager's loops. Frames and transport closes
\* come from the peer and are not forced.
Fairness ==
    /\ \A c \in Sessions : WF_vars(RpBroadcast(c))
    /\ \A c \in Sessions : WF_vars(RpErrSend(c))
    /\ \A c \in Sessions : WF_vars(ReadFail(c))
    /\ \A c \in Sessions : WF_vars(writePump(c))
    /\ \A r \in RoomIds : WF_vars(HubFanOut(r))
    /\ \A c \in Sessions : WF_vars(\E fromPump \in BOOLEAN : MgrUnregister(c, fromPump))
    /\ \A r \in RoomIds : WF_vars(MgrVisit(r))

LiveSpec == InitLive /\ [][Next]_vars /\ Fairness

LiveSpecRoom == InitLiveRoom /\ [][Pumps]_vars /\ Fairness

\* The Chat component with its timers: a reconnect timer that was set
\* fires.
ChatFairness == WF_vars(Reconnect)

LiveSpecChat == InitChat /\ [][NextChat]_vars /\ ChatFairness


\* ------------------------------------------------- the single-hub server
\* handleWebSocket after the upgrade: hub.register <- client is received by
\* the register case of Hub.run, which adds the client and goes on to its
\* send of user_joined on h.broadcast; the handler then starts the pumps.
runRegister(c) ==
    /\ single.readPump[c] = "none"
    /\ single.pc = "select"
    /\ single' = [single EXCEPT
                     !.clients = @ \cup {c},
                     !.pc = "user_joined",
                     !.msg = WSMessage("user_joined", UserOf(c), ""),
                     !.readPump[c] = "read",
                     !.writePump[c] = "run"]
    /\ UNCHANGED <<serverVars, clientVars>>

\* h.broadcast <- msg inside the register or the unregister case of Hub.run:
\* the send returns when the buffer has room; the unregister case then
\* unlocks h.mu. Either way the loop is back at its select.
runSend ==
    /\ single.pc \in {"user_joined", "user_left"}
    /\ Len(single.broadcast) < SingleBroadcastCap
    /\ single' = [single EXCEPT
                     !.broadcast = Append(@, single.msg),
                     !.pc = "select",
                     !.msg = NoWSMessage]
    /\ UNCHANGED <<serverVars, clientVars>>

\* The unregister case of Hub.run, taking the request of a read pump's defer
\* (pump TRUE) or of an eviction goroutine: a client still in the map is
\* deleted, its Send closed, and the loop goes on to its send of user_left
\* with h.mu held; an absent one changes nothing.
runUnregister(c, pump) ==
    /\ single.pc = "select"
    /\ IF pump THEN single.readPump[c] = "unregister" ELSE single.unregister[c] > 0
    /\ LET taken1 == IF pump
                     THEN [single EXCEPT !.readPump[c] = "done"]
                     ELSE [single EXCEPT !.unregister[c] = @ - 1]
       IN  single' = IF c \in single.clients
                     THEN [taken1 EXCEPT
                              !.clients = @ \ {c},
                              !.closed[c] = TRUE,
                              !.pc = "user_left",
                              !.msg = WSMessage("user_left", UserOf(c), "")]
                     ELSE taken1
    /\ UNCHANGED <<serverVars, clientVars>>

\* The broadcast case of Hub.run: the head of h.broadcast goes to the Send
\* of every client in the map that has room; for a full one a goroutine is
\* started that will send the client on h.unregister.
runBroadcast ==
    /\ single.pc = "select"
    /\ single.broadcast # <<>>
    /\ LET message == Head(single.broadcast)
           room(c) == Len(single.Send[c]) < SingleSendCap
       IN  single' = [single EXCEPT
                         !.broadcast = Tail(@),
                         !.Send = [c \in Sessions |->
                                      IF c \in single.clients /\ room(c)
                                      THEN Append(@[c], message) ELSE @[c]],
                         !.unregister = [c \in Sessions |->
                                            IF c \in single.clients /\ ~room(c)
                                            THEN @[c] + 1 ELSE @[c]]]
    /\ UNCHANGED <<serverVars, clientVars>>

\* Client.readPump, one frame: ReadJSON decodes it, the pump stamps type and
\* sender, runs the INSERT (insertOk: it succeeded; a failure is logged)
\* and goes on to hub.broadcast <- &msg.
readPumpFrame(c, content, insertOk) ==
    /\ single.readPump[c] = "read"
    /\ single.frames < SingleFrames
    /\ single' = [single EXCEPT
                     !.frames = @ + 1,
                     !.rows = IF insertOk
                              THEN Append(@, [sender_id |-> UserOf(c), content |-> content])
                              ELSE @,
                     !.held[c] = WSMessage("message", UserOf(c), content),
                     !.saved[c] = insertOk,
                     !.readPump[c] = "broadcast"]
    /\ UNCHANGED <<serverVars, clientVars>>

\* hub.broadcast <- &msg of Client.readPump: returns when the buffer has
\* room, and the pump reads its next frame.
readPumpBroadcast(c) ==
    /\ single.readPump[c] = "broadcast"
    /\ Len(single.broadcast) < SingleBroadcastCap
    /\ single' = [single EXCEPT
                     !.broadcast = Append(@, single.held[c]),
                     !.held[c] = NoWSMessage,
                     !.readPump[c] = "read"]
    /\ UNCHANGED <<serverVars, clientVars>>

\* ReadJSON of Client.readPump fails (the peer left, or the write pump
\* closed the connection): the loop breaks and the deferred function goes
\* on to hub.unregister <- c.
readPumpBreak(c) ==
    /\ single.readPump[c] = "read"
    /\ single' = [single EXCEPT !.readPump[c] = "unregister"]
    /\ UNCHANGED <<serverVars, clientVars>>

\* Client.writePump, one turn of its range over c.Send: the envelope is
\* written (ok), or WriteJSON fails and the pump ends; a closed and drained
\* Send ends it too.
writePumpTurn(c, ok) ==
    /\ single.writePump[c] = "run"
    /\ IF single.Send[c] # <<>>
       THEN single' = [single EXCEPT
                          !.Send[c] = Tail(@),
                          !.writePump[c] = IF ok THEN "run" ELSE "done"]
       ELSE /\ single.closed[c]
            /\ single' = [single EXCEPT !.writePump[c] = "done"]
    /\ UNCHANGED <<serverVars, clientVars>>

NextSingle ==
    \/ \E c \in Sessions : runRegister(c)
    \/ runSend
    \/ \E c \in Sessions, pump \in BOOLEAN : runUnregister(c, pump)
    \/ runBroadcast
    \/ \E c \in Sessions, content \in Bodies, insertOk \in BOOLEAN :
           readPumpFrame(c, content, insertOk)
    \/ \E c \in Sessions : readPumpBroadcast(c)
    \/ \E c \in Sessions : readPumpBreak(c)
    \/ \E c \in Sessions, ok \in BOOLEAN : writePumpTurn(c, ok)

\* The single-hub server from its start; the room-based server and the
\* browser stay as they start.
InitSingle ==
    /\ Start
    /\ budget = [frames |-> 0, http |-> 0]

SpecSingle == InitSingle /\ [][NextSingle]_vars

\* The Go scheduler runs every goroutine that can take a step: the Hub.run
\* loop, and the pumps.
SingleFairness ==
    /\ WF_vars(runSend)
    /\ WF_vars(runBroadcast)
    /\ \A c \in Sessions : WF_vars(readPumpBroadcast(c))

LiveSpecSingle == InitSingle /\ [][NextSingle]_vars /\ SingleFairness

\* ================================================================ properties
Range(s) == {s[i] : i \in 1..Len(s)}

\* Every envelope that is on its way or was delivered.
InFlight ==
    UNION {Range(Broadcast[r]) \cup Range(taken[r]) : r \in RoomIds}
    \cup UNION {Range(Send[c]) \cup Range(written[c]) \cup {rpMsg[c]} : c \in Sessions}
    \cup httpOut

\* The envelope is the one built from a row of the messages table.
Persisted(e) == e.id \in 1..Len(messages) /\ RoomMessage(messages[e.id]) = e

\* The room-r envelopes session c got: written to its transport, then those
\* still in its mailbox.
Got(c, r) ==
    SelectSeq(written[c] \o Send[c], LAMBDA e : e.type = "roomMessage" /\ e.room_id = r)

HasRow(c, r) == \E row \in member : row[1] = UserOf(c) /\ row[2] = r

\* ---------------------------------------------------------------- C1
AllPersisted == \A e \in InFlight : e.type = "roomMessage" => Persisted(e)

FailedInsertStep ==
    (frames' = frames + 1 /\ last'.res = "insertFailed")
        => /\ UNCHANGED <<messages, Broadcast, Send, rpMsg>>
           /\ rp' = rp

\* C1: write-before-broadcast. Every roomMessage envelope that is handed to
\* a hub, fanned out, queued in a mailbox or written is the envelope of a
\* saved messages row (same id, room, sender and text); and the step of a
\* sendMessage whose insert fails saves nothing, hands nothing to any hub's
\* Broadcast and leaves every mailbox as it was.
WriteBeforeBroadcast == []AllPersisted /\ [][FailedInsertStep]_vars

\* A hub has fanned out a saved message and the next sendMessage has just
\* failed its insert: nothing of it is queued anywhere.
FailedInsertAfterFanOut ==
    /\ last.op = "sendMessage" /\ last.res = "insertFailed"
    /\ \E r \in RoomIds : taken[r] # <<>>
    /\ \A r \in RoomIds : Broadcast[r] = <<>>
    /\ \A c \in Sessions : rp[c] # "broadcast"

\* ---------------------------------------------------------------- C2
NoRowNoRoom ==
    \A c \in Sessions, r \in RoomIds :
        ~HasRow(c, r) => c \notin Clients[r] /\ Got(c, r) = <<>>

RefusedFrameStep ==
    (/\ frames' = frames + 1
     /\ last'.op \in {"joinRoom", "sendMessage"}
     /\ (~HasRow(last'.c, last'.room) \/ last'.res = "unauthorized"))
        => /\ UNCHANGED <<messages, Broadcast, Clients>>
           /\ rp'[last'.c] # "broadcast"

Settled(c) ==
    /\ sendClosed[c] = 0 /\ evictReq[c] = 0 /\ mgrClient # c
    /\ conn[c] = "open" /\ wp[c] = "run"

\* C3: per-room order. Every session that is registered in room r since
\* before the hub took its first envelope, and was never evicted, has got
\* exactly the envelopes the hub's loop took from Broadcast, in the order it
\* took them (written to its transport, the rest queued in its mailbox).
SameOrderForAll ==
    \A r \in RoomIds : \A c \in Clients[r] : Settled(c) => Got(c, r) = taken[r]

\* ---------------------------------------------------------------- C4
RoutedByRoom ==
    \A r \in RoomIds : \A e \in Range(Broadcast[r]) \cup Range(taken[r]) : e.room_id = r

MailboxStep ==
    \A c \in Sessions :
        (Len(Send'[c]) > Len(Send[c]) /\ Send'[c][Len(Send'[c])].type = "roomMessage")
            => c \in Clients[Send'[c][Len(Send'[c])].room_id]

\* C4: room isolation. An envelope submitted for room B sits only on room
\* B's Broadcast, and a roomMessage envelope is placed in a session's
\* mailbox only while the session is in the Clients of the envelope's room:
\* a session registered only in room A gets nothing of room B.
OnlyOwnRooms == []RoutedByRoom /\ [][MailboxStep]_vars

\* Room 8's hub has just fanned out to session 1 while session 2 is
\* registered in room 7 only; session 2 got nothing of room 8.
OtherRoomFannedOut ==
    /\ last.op = "fanOut" /\ last.room = 8
    /\ 1 \in Clients[8] /\ Got(1, 8) # <<>>
    /\ 2 \in Clients[7] /\ 2 \notin Clients[8] /\ Got(2, 8) = <<>>

\* ---------------------------------------------------------------- C5
Has(c, e) == e \in Range(written[c] \o Send[c])

\* The session left the room, overflowed or lost its transport.
Gone(c, r) ==
    c \notin Clients[r] \/ evictReq[c] > 0 \/ sendClosed[c] > 0 \/ conn[c] # "open"

\* C5: delivery to sender and peer. When session 1 (user 2) has saved a
\* sendMessage for room 7 while sessions 1 and 2 are both registered there
\* with room in their mailboxes, each of them eventually has the roomMessage
\* envelope of that row (room_id 7, sender_id 2, the body), unless that
\* session meanwhile left the room, overflowed or lost its transport.
SenderAndPeerReceive ==
    \A k \in 1..(3 + LiveRoomFrames) :
        (/\ last.op = "sendMessage" /\ last.res = "saved"
         /\ last.c = 1 /\ last.room = 7 /\ last.msg.id = k
         /\ {1, 2} \subseteq Clients[7]
         /\ \A c \in {1, 2} : ~Gone(c, 7) /\ Len(Send[c]) < MailboxCap)
            ~> (\A c \in {1, 2} :
                    \/ Gone(c, 7)
                    \/ /\ k \in 1..Len(messages)
                       /\ messages[k].sender_id = UserOf(1)
                       /\ Has(c, RoomMessage(messages[k])))

\* ---------------------------------------------------------------- C6
FanOutCompletes ==
    \A r \in RoomIds :
        (taken'[r] # taken[r] /\ \E f \in Clients[r] : Len(Send[f]) >= MailboxCap)
            => /\ panicked' = "none"
               /\ \A c \in Clients[r] :
                     Len(Send[c]) < MailboxCap
                         => Send'[c] = Append(Send[c], taken'[r][Len(taken'[r])])

\* C6: non-blocking fan-out. A fan-out step of a hub that meets a full
\* mailbox among its Clients completes, and in that step every session in the
\* hub's Clients whose mailbox has room gets the envelope.
FanOutNeverStalls == [][FanOutCompletes]_vars

\* ---------------------------------------------------------------- C7
Evicted(c) ==
    /\ \A r \in RoomIds : c \notin Clients[r]
    /\ sendClosed[c] > 0
    /\ wp[c] = "done"
    /\ conn[c] = "closed"

\* C7: slow-consumer eviction. A session whose mailbox was full at a fan-out
\* (an eviction request for it is pending) is eventually in no room's
\* Clients, with its mailbox closed, its write pump ended and its transport
\* closed.
FullMailboxEvicted == \A c \in Sessions : (evictReq[c] > 0) ~> Evicted(c)

\* ---------------------------------------------------------------- C8
\* C8: unregister everywhere. Once a session's read pump has ended (it is
\* sending its unregister request), the manager eventually has handled the
\* request and the session is in no room's Clients.
DisconnectedRemovedEverywhere ==
    \A c \in Sessions :
        (rp[c] = "unregister")
            ~> (rp[c] = "done" /\ mgrClient # c /\ \A r \in RoomIds : c \notin Clients[r])

\* ---------------------------------------------------------------- C9
\* C9: pump termination. Once a session's transport is closed, its read
\* pump eventually has ended and delivered its unregister request to the
\* manager, and its write pump has ended.
PumpsTerminate ==
    \A c \in Sessions : (conn[c] = "closed") ~> (rp[c] = "done" /\ wp[c] = "done")

\* ---------------------------------------------------------------- C10
\* C10: one hub per room. For every room id at most one RoomHub was ever
\* constructed, it is the one stored in Rooms, exactly one Run loop was
\* started for it, and a caller of GetOrCreateRoomHub is handed the stored hub.
OneHubPerRoom ==
    /\ \A r \in RoomIds :
          created[r] <= 1 /\ running[r] = created[r] /\ Rooms[r] = created[r]
    /\ last.hub # 0 => last.hub = Rooms[last.room]

\* A read pump has just resolved the hub of room 8 to submit a saved message,
\* after an HTTP join resolved the same room, which had no hub at the start:
\* both were handed hub 1.
TwoCallersOneHub ==
    /\ last.op = "submit" /\ last.hub = 1 /\ last.room = 8
    /\ \E u \in Users : <<u, 8, "member">> \in member

\* ---------------------------------------------------------------- C11
\* The step of a refused joinRoom or sendMessage: the error envelope goes to
\* the refused session's mailbox, or the pump waits to send it while the
\* mailbox is full.
RefusalStep ==
    (frames' = frames + 1 /\ last'.res = "unauthorized")
        => /\ panicked' = "none"
           /\ conn' = conn
           /\ \A d \in Sessions \ {last'.c} : Send'[d] = Send[d]
           /\ \/ /\ rp'[last'.c] = "read"
                 /\ Len(Send'[last'.c]) = Len(Send[last'.c]) + 1
                 /\ Send'[last'.c][Len(Send'[last'.c])].type = "error"
                 /\ SubSeq(Send'[last'.c], 1, Len(Send[last'.c])) = Send[last'.c]
              \/ /\ rp'[last'.c] = "errsend"
                 /\ rpMsg'[last'.c].type = "error"
                 /\ Send' = Send

\* The waiting pump completes its send and reads on.
ErrSendStep ==
    \A c \in Sessions :
        (rp[c] = "errsend" /\ rp'[c] # "errsend")
            => /\ rp'[c] = "read"
               /\ Send' = [Send EXCEPT ![c] = Append(@, rpMsg[c])]

\* C11: a refused joinRoom or sendMessage puts exactly one error envelope in
\* the refused session's mailbox (at once, or when the full mailbox has
\* room again) and in no other mailbox; the session's transport stays as it
\* was and its read pump goes on reading frames.
RefusalAnsweredOnce == [][RefusalStep /\ ErrSendStep]_vars

\* ---------------------------------------------------------------- C12
MembersOnlyStep ==
    \A c \in Sessions :
        (Len(Send'[c]) > Len(Send[c]) /\ Send'[c][Len(Send'[c])].type = "roomMessage")
            => HasRow(c, Send'[c][Len(Send'[c])].room_id)

\* C12: delivery to members only. A roomMessage envelope of room R is placed
\* in a session's mailbox only while the session's user has a room_members
\* row for R; once the row is deleted (the user left, or an admin removed
\* it) the connected session gets no further envelope of R.
DeliveryToMembersOnly == [][MembersOnlyStep]_vars

\* ---------------------------------------------------------------- C17
InvalidFrameStep ==
    /\ (/\ frames' = frames + 1
        /\ last'.op = "sendMessage"
        /\ last'.room = 0 \/ last'.res = "invalid")
           => /\ UNCHANGED <<dbVars, mapVars, hubVars, Send, sendClosed, conn, rp, rpMsg,
                             wp, mgrVars, panicked>>
              /\ last'.res = "invalid"
    /\ Len(messages') > Len(messages)
           => /\ messages'[Len(messages')].text # ""
              /\ messages'[Len(messages')].room_id # 0

\* C17: a sendMessage frame with empty content or room id 0 has no effect:
\* no row is inserted, nothing is handed to a hub, no subscriber set and no
\* mailbox changes, and the session stays connected with its read pump
\* reading; no row with empty content or room id 0 is ever persisted.
InvalidFrameDropped == [][InvalidFrameStep]_vars

\* A member sent an empty sendMessage to a room whose hub holds its session.
EmptyFrameFromSubscriber ==
    /\ last.op = "sendMessage"
    /\ last.res = "invalid"
    /\ last.room \in RoomIds
    /\ HasRow(last.c, last.room)
    /\ last.c \in Clients[last.room]

\* ---------------------------------------------------------------- C18
InsertFailureStep ==
    (frames' = frames + 1 /\ last'.op = "sendMessage" /\ last'.res = "insertFailed")
        => \/ /\ Len(Send'[last'.c]) = Len(Send[last'.c]) + 1
              /\ Send'[last'.c][Len(Send'[last'.c])].type = "error"
           \/ /\ rp'[last'.c] = "errsend"
              /\ rpMsg'[last'.c].type = "error"

\* C18: when the insert of an authorised sendMessage fails, the originating
\* session is told: an error envelope is placed in its mailbox (or its read
\* pump is blocked placing one).
InsertFailureReported == [][InsertFailureStep]_vars

\* ---------------------------------------------------------------- C19
QueryFailedStep ==
    (/\ frames' = frames + 1
     /\ last'.op \in {"joinRoom", "sendMessage"}
     /\ ~last'.db)
        => /\ last'.res = "unauthorized"
           /\ UNCHANGED <<messages, mapVars, hubVars>>
           /\ rp'[last'.c] # "broadcast"
           /\ \A d \in Sessions \ {last'.c} : Send'[d] = Send[d]

\* C19: fail closed. A joinRoom or sendMessage frame whose membership query
\* returns an error is refused, whatever the membership table holds: the
\* session is registered in no hub, no hub is made, no row is inserted and
\* nothing is handed to a hub or placed in another session's mailbox.
QueryFailureRefuses == [][QueryFailedStep]_vars

\* A member's sendMessage to a room it has joined was refused because the
\* membership query failed.
MemberRefusedOnQueryFailure ==
    /\ last.op = "sendMessage"
    /\ ~last.db
    /\ HasRow(last.c, last.room)
    /\ last.c \in Clients[last.room]

\* ---------------------------------------------------------------- C20
ValidToken == [present |-> TRUE, alg |-> "HS256", key |-> "jwtKey", live |-> TRUE]

\* No Client exists for the connection: no pumps, no mailbox content, in no
\* hub, not with the manager.
NoClient(c) ==
    /\ rp[c] = "none" /\ wp[c] = "none"
    /\ Send[c] = <<>> /\ sendClosed[c] = 0 /\ written[c] = <<>>
    /\ mgrClient # c
    /\ \A r \in RoomIds : c \notin Clients[r]

AuthenticatedStep ==
    /\ \A c \in Sessions :
          (conn[c] = "none" /\ conn'[c] # "none")
              => last'.op = "handshake" /\ last'.c = c /\ last'.token = ValidToken
    /\ (last'.op = "handshake" /\ last' # last /\ last'.token # ValidToken)
          => /\ UNCHANGED <<conn, rp, wp, Send, hubVars, mgrVars>>
             /\ NoClient(last'.c)
    /\ (frames' = frames + 1 /\ last'.op \in {"joinRoom", "sendMessage"})
          => conn[last'.c] = "open"

\* C20: authentication before a session exists. A connection gets a Client
\* (announced to the manager, read and write pumps started) only in a
\* handshake whose token parseJWT accepts: an HMAC-signed, unexpired token
\* under the server's key. A handshake with a missing, unsigned, forged or
\* expired token makes nothing, and no joinRoom or sendMessage frame is ever
\* processed for a connection that has no Client.
OnlyAuthenticatedSessions ==
    [](\A c \in Sessions : conn[c] = "none" => NoClient(c)) /\ [][AuthenticatedStep]_vars

\* A handshake with a forged token has just been refused while the other
\* session is connected and registered in a hub.
ForgedTokenRefused ==
    /\ last.op = "handshake"
    /\ last.token.present /\ last.token.key = "other"
    /\ conn[last.c] = "none"
    /\ \E d \in Sessions, r \in RoomIds : conn[d] = "open" /\ d \in Clients[r]

\* ---------------------------------------------------------------- C13
\* The positions of the list that hold the id.
At(list, id) == {i \in 1..Len(list) : list[i].id = id}
\* The pending optimistic entries of the list, and those of a text.
Pending(list) == {list[i] : i \in {j \in 1..Len(list) : list[j].isOptimistic}}
PendingOf(list, text) == {m \in Pending(list) : m.text = text}
\* The oldest of them: temporary ids are handed out in falling order.
Oldest(S) == CHOOSE m \in S : \A n \in S : n.id <= m.id

\* The envelope is of the local user and of the room shown.
OwnEcho(e) ==
    /\ e.op = "roomMessage"
    /\ e.data.sender_id = LocalUser
    /\ e.data.room_id = chat.activeRoomId

ReconciledStep ==
    (OwnEcho(chatLast') /\ PendingOf(chat.messages, chatLast'.data.text) # {})
        => /\ Cardinality(At(chat'.messages, chatLast'.data.id)) = 1
           /\ \A i \in At(chat'.messages, chatLast'.data.id) :
                 /\ ~chat'.messages[i].isOptimistic
                 /\ chat'.messages[i].text = chatLast'.data.text
           /\ At(chat'.messages,
                 Oldest(PendingOf(chat.messages, chatLast'.data.text)).id) = {}

\* C13: reconciliation. When the list shown holds a pending optimistic
\* entry of body b and a roomMessage of the local user with body b arrives
\* for the room shown, the list shown afterwards holds exactly one entry of
\* the envelope's canonical id, with body b, and no entry of the optimistic
\* entry's temporary id.
OptimisticReconciled == [][ReconciledStep]_vars

\* The echo of a pending message has just been handled in the room shown.
EchoOfPendingHandled ==
    /\ chatLast.op = "roomMessage"
    /\ chatLast.pending
    /\ chatLast.data.sender_id = LocalUser
    /\ chatLast.data.room_id = chat.activeRoomId
    /\ At(chat.messages, chatLast.data.id) # {}

\* ---------------------------------------------------------------- C14
NoDuplicateIds(list) ==
    \A i, j \in 1..Len(list) : (list[i].id = list[j].id /\ list[i].id > 0) => i = j

\* C14: no list holds a canonical id twice: neither the list shown nor any
\* room's cached list, whatever envelopes arrive (again, on the first or
\* the second socket) and whatever history responses come in between.
CanonicalIdsUnique ==
    /\ NoDuplicateIds(chat.messages)
    /\ \A r \in RoomIds : NoDuplicateIds(chat.messagesCache[r])

\* On the reconnected socket an envelope has arrived whose id the cached
\* list of the room shown already held.
ReplayAfterReconnect ==
    /\ chatLast.op = "roomMessage"
    /\ chatLast.known
    /\ chat.reconnected
    /\ chatLast.data.room_id = chat.activeRoomId
    /\ At(chat.messages, chatLast.data.id) # {}

\* ---------------------------------------------------------------- C15
TransportFailureStep ==
    chatLast'.op \in {"onerror", "error"}
        => \A m \in Pending(chat.messages) : At(chat'.messages, m.id) # {}

\* C15: a transport failure (the socket's error event, or an error
\* envelope) removes no pending optimistic entry from the list shown.
FailureKeepsPending == [][TransportFailureStep]_vars

\* ---------------------------------------------------------------- C16
MatchingStep ==
    OwnEcho(chatLast')
        => LET same == PendingOf(chat.messages, chatLast'.data.text)
               kept == IF same = {} THEN Pending(chat.messages)
                       ELSE Pending(chat.messages) \ {Oldest(same)}
           IN  /\ \A m \in kept : At(chat'.messages, m.id) # {}
               /\ At(chat'.messages, chatLast'.data.id) # {}

\* C16: the matching rule. A roomMessage of the local user for the room
\* shown replaces at most the oldest pending optimistic entry of exactly its
\* body; every other pending entry stays in the list shown, and the
\* envelope's entry is in the list afterwards (appended when none matched).
OnlyOldestMatchReplaced == [][MatchingStep]_vars

\* ---------------------------------------------------------------- C22
\* C22: a session's mailbox is closed at most once: no close(client.Send)
\* is ever run on a channel that is already closed, however many hubs hold
\* the session when the manager handles its unregister request.
MailboxClosedAtMostOnce ==
    /\ panicked # "close of closed channel"
    /\ \A c \in Sessions : sendClosed[c] <= 1

\* ---------------------------------------------------------------- C23
\* C23: nothing is sent on a closed mailbox: no fan-out's send and no read
\* pump's error envelope ever hits a mailbox that has been closed.
NoSendOnClosedMailbox ==
    /\ panicked # "send on closed channel"
    /\ \A c \in Sessions : rp[c] # "panicking"

\* ---------------------------------------------------------------- C24
ClientsStep ==
    \A r \in RoomIds :
        Clients'[r] # Clients[r]
            => /\ last'.op = "joinRoom"
               /\ last'.room = r
               /\ last'.hub = Rooms'[r]

\* C24: a hub's Clients changes only in a step of that hub's own Run loop,
\* serving a request it received on its Register or Unregister channel; no
\* other goroutine adds to or deletes from it.
OnlyHubLoopMutatesClients == [][ClientsStep]_vars

\* ---------------------------------------------------------------- C25
\* C25: within a room, fan-out follows persistence: of two envelopes of the
\* room that a session got, sent by different sessions, the one of the lower
\* canonical id came first.
FanOutInIdOrder ==
    \A c \in Sessions, r \in RoomIds :
        \A i, j \in 1..Len(Got(c, r)) :
            (i < j /\ Got(c, r)[i].sender_id # Got(c, r)[j].sender_id)
                => Got(c, r)[i].id < Got(c, r)[j].id

\* ---------------------------------------------------------------- C26
\* The session's connection is up and its read pump is running.
Connected(c) == conn[c] = "open" /\ rp[c] \in {"read", "broadcast", "errsend"}

EchoStep ==
    (last'.op = "fanOut" /\ last' # last)
        => \A c \in Sessions :
              (UserOf(c) = last'.msg.sender_id /\ Connected(c))
                  => /\ c \in Clients[last'.room]
                     /\ Len(Send[c]) < MailboxCap
                            => /\ Send'[c] = Append(Send[c], last'.msg)
                               /\ panicked' = "none"

\* C26: a session that joined a room and then sent a message to it on the
\* same connection is in the room's Clients when the hub fans its envelope
\* out, and with room in its mailbox the envelope is placed there. (Every
\* session of these runs joined, on its connection, each room it can send
\* to.)
SenderGetsEcho == [][EchoStep]_vars

\* ---------------------------------------------------------------- C27
\* A joinRoom frame of a session that is already in the room's Clients.
RegisterAgainStep ==
    (/\ frames' # frames
     /\ last'.op = "joinRoom"
     /\ last'.res = "ok"
     /\ last'.c \in Clients[last'.room])
        => UNCHANGED <<Clients, Send, sendClosed>>

\* One fan-out puts the envelope it took at most once in a mailbox.
OncePerFanOutStep ==
    (last'.op = "fanOut" /\ taken' # taken)
        => \A c \in Sessions : Send'[c] \in {Send[c], Append(Send[c], last'.msg)}

NoEnvelopeTwice ==
    \A c \in Sessions, r \in RoomIds :
        \A i, j \in 1..Len(Got(c, r)) : i < j => Got(c, r)[i].id # Got(c, r)[j].id

\* C27: registering a session that is already in the room's Clients changes
\* nothing, and however many joinRoom frames it sent, a session has every
\* envelope of the room at most once in what it was written and its mailbox.
RegisterIdempotent ==
    /\ [][RegisterAgainStep /\ OncePerFanOutStep]_vars
    /\ []NoEnvelopeTwice

\* A session that already holds an envelope of the room, and was never
\* unregistered, has just joined the room again.
JoinedAgain ==
    /\ last.op = "joinRoom"
    /\ last.res = "ok"
    /\ sendClosed[last.c] = 0
    /\ Got(last.c, last.room) # <<>>

\* ---------------------------------------------------------------- C28
\* The manager starts on an unregister request.
UnregisterRequestStep ==
    (last'.op = "unregister" /\ mgrTodo' # mgrTodo)
        => UNCHANGED <<Clients, Send, sendClosed>>

\* The manager visits a hub that does not hold the session.
AbsentVisitStep ==
    (last'.op = "visit" /\ mgrTodo' # mgrTodo /\ mgrClient \notin Clients[last'.room])
        => UNCHANGED <<Clients, Send, sendClosed, panicked>>

\* C28: an unregister request for a session that no hub holds changes no
\* hub's Clients and closes no channel: taking the request changes neither,
\* and neither does the visit of any hub that does not hold the session.
UnregisterOfAbsentIsNoOp == [][UnregisterRequestStep /\ AbsentVisitStep]_vars

\* The manager has gone through every hub for a session that never joined
\* a room: no hub held it and its mailbox is still open.
AbsentSessionVisited ==
    /\ last.op = "visit"
    /\ last.res = "absent"
    /\ mgrTodo = {}
    /\ sendClosed[last.c] = 0
    /\ \A r \in RoomIds : last.c \notin Clients[r]
    /\ \E r \in RoomIds : Clients[r] # {}

\* ---------------------------------------------------------------- C29
\* A mailbox gains a roomMessage envelope only as the envelope the room's
\* hub takes from Broadcast in that very step, and only the mailbox of a
\* session the hub holds at that moment.
NoReplayStep ==
    \A c \in Sessions :
        (/\ Len(Send'[c]) > Len(Send[c])
         /\ Send'[c][Len(Send'[c])].type = "roomMessage")
            => \E r \in RoomIds :
                  /\ c \in Clients[r]
                  /\ Broadcast[r] # <<>>
                  /\ taken'[r] = Append(taken[r], Head(Broadcast[r]))
                  /\ Send'[c] = Append(Send[c], Head(Broadcast[r]))

\* C29: a session that registers in a room receives only the envelopes the
\* hub takes from Broadcast after the registration; registering delivers
\* nothing of what was taken before.
NoReplayAtRegister == [][NoReplayStep]_vars

\* A session registered after the hub had taken an envelope has since been
\* handed a later envelope, and only that one.
LateJoinerGotOnlyLater ==
    \E c \in Sessions, r \in RoomIds :
        /\ Len(taken[r]) = 2
        /\ c \in Clients[r]
        /\ sendClosed[c] = 0
        /\ written[c] = <<>>
        /\ Send[c] = <<taken[r][2]>>
        /\ evictReq[c] = 0
        /\ panicked = "none"

\* ---------------------------------------------------------------- C30
\* A sendMessage frame was saved: the envelope the pump built.
SenderStep ==
    (frames' # frames /\ last'.op = "sendMessage" /\ last'.res = "saved")
        => /\ messages' = Append(messages, messages'[Len(messages')])
           /\ messages'[Len(messages')].sender_id = UserOf(last'.c)
           /\ messages'[Len(messages')].room_id = last'.room
           /\ last'.msg = RoomMessage(messages'[Len(messages')])
           /\ rpMsg'[last'.c] = last'.msg

\* C30: the envelope built for a sendMessage frame carries the sender of
\* the authenticated session and the room, id and text of the row that was
\* saved, whatever sender the client wrote into the frame.
SenderFromSession == [][SenderStep]_vars

\* A frame that names another user as its sender has been saved, and its
\* envelope built, under the session's own user.
ForgedSenderOverridden ==
    /\ last.op = "sendMessage"
    /\ last.res = "saved"
    /\ last.claimed # UserOf(last.c)
    /\ last.msg.sender_id = UserOf(last.c)

\* ---------------------------------------------------------------- C21
\* The handler of a roomMessage has run for a room of the list.
RoomToFrontStep ==
    (/\ chatLast'.op = "roomMessage"
     /\ <<chat, chatLast>>' # <<chat, chatLast>>
     /\ \E k \in 1..Len(chat.rooms) : chat.rooms[k] = chatLast'.data.room_id)
        => chat'.rooms = <<chatLast'.data.room_id>>
                            \o SelectSeq(chat.rooms,
                                         LAMBDA x : x # chatLast'.data.room_id)

\* C21: whenever the client handles a roomMessage for a room of its rooms
\* list, on the first socket or on the reconnected one, the room becomes
\* the first of the list and the others keep their order.
RoomMovesToFront == [][RoomToFrontStep]_vars

\* ---------------------------------------------------------------- C31
\* The optimistic entries of a list.
OptimisticIn(list) == SelectSeq(list, LAMBDA m : m.isOptimistic)

\* A submit that was taken: one pending entry of the text is appended to
\* the list shown, one frame for the active room is written, and nothing
\* of the server has changed meanwhile.
SubmitTakenStep ==
    chatLast'.op = "send" /\ chat'.temps # chat.temps
        => /\ chat.activeRoomId # 0
           /\ chat.ws = "open"
           /\ Len(chat'.messages) = Len(chat.messages) + 1
           /\ SubSeq(chat'.messages, 1, Len(chat.messages)) = chat.messages
           /\ chat'.messages[Len(chat'.messages)].isOptimistic
           /\ chat'.messages[Len(chat'.messages)].text = chatLast'.data.text
           /\ chatLast'.data.type = "sendMessage"
           /\ chatLast'.data.room_id = chat.activeRoomId
           /\ chat'.sent = chat.sent + 1
           /\ chat'.messagesCache = chat.messagesCache
           /\ messages' = messages

\* Without an active room or an open socket no step writes a frame or adds
\* a pending entry.
SubmitRefusedStep ==
    (chat.activeRoomId = 0 \/ chat.ws # "open")
        => /\ chat'.sent = chat.sent
           /\ chat'.temps = chat.temps
           /\ Len(OptimisticIn(chat'.messages)) <= Len(OptimisticIn(chat.messages))

\* C31: a submit with a room active and the socket open appends exactly one
\* pending optimistic entry of the submitted text to the list shown, at
\* once, and sends exactly one sendMessage frame for the active room; with
\* no room active or the socket not open the list is unchanged and no frame
\* is sent.
SubmitAppendsAndSends == [][SubmitTakenStep /\ SubmitRefusedStep]_vars

\* A submit has just been taken: the list shown ends with its pending
\* entry, after the entries it held.
SubmitTaken ==
    /\ chatLast.op = "send"
    /\ chatLast.data.room_id = chat.activeRoomId
    /\ chat.sent = 1
    /\ chat.ws = "open"
    /\ Len(chat.messages) > 1
    /\ chat.messages[Len(chat.messages)].isOptimistic
    /\ chat.messages[Len(chat.messages)].text = chatLast.data.text

\* ---------------------------------------------------------------- C32
\* A roomMessage for the room shown that is not the canonical envelope of
\* the pending entry m: it is of another user, or of another text.
NotEnvelopeOf(e, m) ==
    /\ e.op = "roomMessage"
    /\ e.data.room_id = chat.activeRoomId
    /\ e.data.sender_id # LocalUser \/ e.data.text # m.text

OtherEnvelopeStep ==
    <<chat, chatLast>>' # <<chat, chatLast>>
        => \A m \in Pending(chat.messages) :
              NotEnvelopeOf(chatLast', m) => At(chat'.messages, m.id) # {}

\* C32: a pending optimistic entry stays in the list shown while roomMessage
\* envelopes of other users, or canonical envelopes of other own messages,
\* are handled for the room shown.
PendingSurvivesOthers == [][OtherEnvelopeStep]_vars

\* ---------------------------------------------------------------- C33
\* A history response is taken right after an envelope was added to its
\* room's cached list.
FetchAfterEnvelopeStep ==
    (/\ chatLast.op = "roomMessage"
     /\ chatLast'.op \in {"fetch", "roomMessage"}
     /\ <<chat, chatLast>>' # <<chat, chatLast>>)
        => /\ At(chat'.messagesCache[chatLast.data.room_id], chatLast.data.id) # {}
           /\ (/\ chat.activeRoomId = chatLast.data.room_id
               /\ At(chat.messages, chatLast.data.id) # {}
               /\ chatLast'.op = "roomMessage")
                  => At(chat'.messages, chatLast.data.id) # {}

\* C33: the entry of a canonical envelope, once in its room's cached list,
\* stays there (and in the list shown while further envelopes are handled
\* for the active room) whatever history responses and envelopes follow.
EnvelopeSurvivesFetch == [][FetchAfterEnvelopeStep]_vars

\* ---------------------------------------------------------------- C34
\* The confirmed entries of a list.
Confirmed(list) == SelectSeq(list, LAMBDA m : ~m.isOptimistic)

ErrorEnvelopeStep ==
    chatLast'.op = "error"
        => /\ Confirmed(chat'.messages) = Confirmed(chat.messages)
           /\ \A r \in RoomIds :
                 Confirmed(chat'.messagesCache[r]) = Confirmed(chat.messagesCache[r])

\* C34: handling an envelope of type error leaves the confirmed entries of
\* the list shown and of every room's cached list as they were.
ErrorKeepsConfirmed == [][ErrorEnvelopeStep]_vars

\* ---------------------------------------------------------------- C35
\* C35: after every abnormal close of the socket, that of a socket opened
\* by a reconnect included, the client eventually has an open socket again.
ReconnectsAfterClose == (chat.ws = "closed") ~> (chat.ws = "open")

\* ---------------------------------------------------------------- C36
\* The handler of a roomMessage has run for a room of the list.
UnreadStep ==
    (/\ chatLast'.op = "roomMessage"
     /\ <<chat, chatLast>>' # <<chat, chatLast>>
     /\ \E k \in 1..Len(chat.rooms) : chat.rooms[k] = chatLast'.data.room_id)
        => \A r \in RoomIds :
              chat'.unread[r] =
                  IF /\ r = chatLast'.data.room_id
                     /\ r # chat.activeRoomId
                     /\ chatLast'.data.sender_id # LocalUser
                  THEN chat.unread[r] + 1
                  ELSE chat.unread[r]

\* C36: handling a roomMessage increments the unread counter of its room by
\* one exactly when the room is not the active one and the sender is not
\* the logged-in user, and changes no other counter.
UnreadCountsOthersOnly == [][UnreadStep]_vars

\* ---------------------------------------------------------------- C39
\* C39: once the component is unmounted, by navigation or by logout, no
\* socket is open, then or later.
NoSocketAfterUnmount == chat.mounted \/ chat.ws # "open"

\* The step in which the read pump of session c of the single-hub server
\* puts the message it holds on hub.broadcast.
SinglePumpBroadcastStep(c) ==
    /\ single.readPump[c] = "broadcast"
    /\ single'.readPump[c] = "read"
SavedBeforeBroadcastStep ==
    \A c \in Sessions : SinglePumpBroadcastStep(c) => single.saved[c]
\* C37: in the single-hub server a read pump puts a received message on the
\* hub's broadcast channel only if its database insert succeeded; a message
\* whose insert failed is never broadcast.
OnlySavedIsBroadcast == [][SavedBeforeBroadcastStep]_vars

\* C38: the Hub.run loop of the single-hub server never blocks forever:
\* after taking a register, unregister or broadcast request it eventually
\* returns to its select, whatever is pending on the buffered broadcast
\* channel, its own user_joined / user_left sends included.
RunReturnsToSelect == (single.pc # "select") ~> (single.pc = "select")

====
